---- MODULE Spec2Model ----
(***************************************************************************)
(* Model of the fraud-risk server (src/server): the two risk-fusion        *)
(* implementations (RiskMLService.calculate_risk_score in risk_ml.py and   *)
(* the /calculate-risk handler in routes.py), the audit recorder           *)
(* (audit.py, database.py:AuditLog) and the handlers that read and patch   *)
(* the audit log (/audit-log, /explain-decision).                          *)
(*                                                                         *)
(* Numbers.  The code computes on Python floats.  The model computes on    *)
(* exact rationals, a pair <<n, d>> with d > 0 in lowest terms, so that    *)
(* equality of two numbers is equality of their pairs and a threshold      *)
(* comparison is decided as on the reals.                                  *)
(***************************************************************************)
EXTENDS Integers, Sequences, FiniteSets, TLC

VARIABLES audit, txns, now, resp, fin

vars == <<audit, txns, now, resp, fin>>

(***************************************************************************)
(* Exact rational arithmetic standing for the float arithmetic of the code *)
(***************************************************************************)
Abs(n) == IF n < 0 THEN -n ELSE n

RECURSIVE GCD(_, _)
GCD(a, b) == IF b = 0 THEN a ELSE GCD(b, a % b)

Rat(n, d) ==
    LET s == IF d < 0 THEN -1 ELSE 1
        g == GCD(Abs(n), Abs(d))
    IN  <<(s * n) \div g, (s * d) \div g>>

FromInt(n) == <<n, 1>>

RAdd(x, y) == Rat(x[1] * y[2] + y[1] * x[2], x[2] * y[2])

RSub(x, y) == Rat(x[1] * y[2] - y[1] * x[2], x[2] * y[2])

RMul(x, y) == Rat(x[1] * y[1], x[2] * y[2])

RDiv(x, y) == Rat(x[1] * y[2], x[2] * y[1])

RLe(x, y) == x[1] * y[2] <= y[1] * x[2]

RLt(x, y) == x[1] * y[2] < y[1] * x[2]

\* max where min is meant
RLarger(x, y) == IF RLt(x, y) THEN y ELSE x

RMin(x, y) == IF RLt(y, x) THEN y ELSE x

RMax(x, y) == IF RLt(x, y) THEN y ELSE x

Zero == FromInt(0)

One == FromInt(1)

InUnit(x) == RLe(Zero, x) /\ RLe(x, One)

\* round(x, ndigits) and the ':.2f' format, scale = 10^ndigits: the nearest
\* multiple of 1/scale, an exact tie going to the even one
Round(x, scale) ==
    LET k == (scale * x[1]) \div x[2]
        r == scale * x[1] - k * x[2]
        up == \/ 2 * r > x[2]
              \/ (2 * r = x[2] /\ k % 2 = 1)
    IN  Rat(IF up THEN k + 1 ELSE k, scale)

(***************************************************************************)
(* Risk fusion: weights and thresholds                                     *)
(***************************************************************************)
model_anomaly_weight == Rat(4, 10)

amount_ratio_weight == Rat(3, 10)

user_trust_weight == Rat(2, 10)

velocity_weight == Rat(1, 10)

DeclineAbove == Rat(7, 10)

ReviewFrom == Rat(4, 10)

Decisions == {"APPROVE", "MANUAL REVIEW", "DECLINE"}

\* risk_ml.py: if risk_score > 0.7 ... elif risk_score >= 0.4 ... else
ServiceDecision(risk_score) ==
    IF RLt(DeclineAbove, risk_score) THEN "DECLINE"
    ELSE IF RLe(ReviewFrom, risk_score) THEN "MANUAL REVIEW"
    ELSE "APPROVE"

\* the middle band under a label of its own
RouteDecisionUnderscored(final_risk) ==
    IF RLt(DeclineAbove, final_risk) THEN "DECLINE"
    ELSE IF RLt(ReviewFrom, final_risk) THEN "MANUAL_REVIEW"
    ELSE "APPROVE"

\* routes.py: if final_risk > 0.7 ... elif final_risk > 0.4 ... else
RouteDecision(final_risk) ==
    IF RLt(DeclineAbove, final_risk) THEN "DECLINE"
    ELSE IF RLt(ReviewFrom, final_risk) THEN "MANUAL REVIEW"
    ELSE "APPROVE"

\* a contribution multiplied by a literal other than the component's weight
ComponentOtherLiteral(value, weight) ==
    [value |-> value, weight |-> weight,
     contribution |-> RMul(value, model_anomaly_weight)]

Component(value, weight) ==
    [value |-> value, weight |-> weight, contribution |-> RMul(value, weight)]

\* a sum that leaves the last component out
RECURSIVE SumWithoutLast(_, _)
SumWithoutLast(comps, names) ==
    IF Len(names) <= 1 THEN Zero
    ELSE RAdd(SumWithoutLast(comps, SubSeq(names, 1, Len(names) - 1)),
              comps[names[Len(names) - 1]].contribution)

\* sum(comp['contribution'] for comp in risk_components.values()), in the
\* insertion order of the dict
RECURSIVE SumContributions(_, _)
SumContributions(comps, names) ==
    IF names = <<>> THEN Zero
    ELSE RAdd(SumContributions(comps, SubSeq(names, 1, Len(names) - 1)),
              comps[names[Len(names)]].contribution)

ServiceNames == <<"model_anomaly", "amount_ratio", "user_trust", "velocity">>

RouteNames == <<"ml_anomaly", "amount_ratio", "user_trust", "velocity">>

\* RiskMLService.calculate_risk_score(transaction, user_profile, ml_score,
\* recent_transactions); recent_count is len(recent_transactions).  A zero
\* average raises inside the try block and is re-raised as an Exception.
calculate_risk_score(transaction, user_profile, ml_score, recent_count) ==
    IF user_profile.avg_transaction = 0
    THEN [status |-> "error"]
    ELSE
    LET amount_ratio == RDiv(FromInt(transaction.amount),
                             FromInt(user_profile.avg_transaction))
        amount_ratio_normalized == RMin(RDiv(amount_ratio, FromInt(3)), One)
        user_trust_value ==
            RMax(Zero, RSub(One, Rat(user_profile.account_age_days, 365)))
        velocity_value == RMin(Rat(recent_count, 5), One)
        components ==
            [model_anomaly |-> Component(ml_score, model_anomaly_weight),
             amount_ratio |->
                 [value |-> amount_ratio_normalized,
                  weight |-> amount_ratio_weight,
                  contribution |-> RMul(amount_ratio_normalized, amount_ratio_weight),
                  raw_ratio |-> amount_ratio],
             user_trust |->
                 [value |-> user_trust_value,
                  weight |-> user_trust_weight,
                  contribution |-> RMul(user_trust_value, user_trust_weight),
                  account_age_days |-> user_profile.account_age_days],
             velocity |->
                 [value |-> velocity_value,
                  weight |-> velocity_weight,
                  contribution |-> RMul(velocity_value, velocity_weight),
                  recent_count |-> recent_count]]
        risk_score == RAdd(RAdd(RAdd(components.model_anomaly.contribution,
                                     components.amount_ratio.contribution),
                                components.user_trust.contribution),
                           components.velocity.contribution)
    IN  [status |-> "ok",
         risk_score |-> risk_score,
         decision |-> ServiceDecision(risk_score),
         components |-> components]

\* routes.py calculate_risk, the fusion between the velocity query and the
\* decision: recent_txns is the count of the user's rows in transactions.
RouteFusion(amount, user_profile, ml_score, recent_txns) ==
    LET velocity_score == RMin(Rat(recent_txns, 10), One)
        amount_ratio == RDiv(FromInt(amount), FromInt(user_profile.avg_transaction))
        amount_ratio_score == RMin(RDiv(amount_ratio, FromInt(3)), One)
        trust_risk == RSub(One, user_profile.trust_score)
        risk_components ==
            [ml_anomaly |-> Component(ml_score, model_anomaly_weight),
             amount_ratio |-> Component(amount_ratio_score, amount_ratio_weight),
             user_trust |-> Component(trust_risk, user_trust_weight),
             velocity |-> Component(velocity_score, velocity_weight)]
        final_risk == SumContributions(risk_components, RouteNames)
    IN  [final_risk |-> final_risk,
         decision |-> RouteDecision(final_risk),
         components |-> risk_components]

(***************************************************************************)
(* Audit recorder: database.py AuditLog, audit.py                          *)
(***************************************************************************)
\* json.dumps of the component breakdown: the text lists every leaf under its
\* component name and field name
JsonDumps(d) ==
    UNION {{<<k, f, d[k][f]>> : f \in DOMAIN d[k]} : k \in DOMAIN d}

\* json.loads: the nested dict rebuilt from the text
JsonLoads(t) ==
    [k \in {x[1] : x \in t} |->
        [f \in {x[2] : x \in {y \in t : y[1] = k}} |->
            (CHOOSE x \in t : x[1] = k /\ x[2] = f)[3]]]

NoComponents == [is_null |-> TRUE]

NoExplanation == [kind |-> "none"]

EmptyDict == [k \in {} |-> 0]

\* components_json = json.dumps(risk_components) if risk_components else None
ComponentsJson(risk_components) ==
    IF DOMAIN risk_components = {} THEN NoComponents
    ELSE [is_null |-> FALSE, text |-> JsonDumps(risk_components)]

\* the row log_decision adds and commits; id is the autoincrement key
AuditLog(id, transaction_id, user_id, risk_score, decision, risk_components, explanation, timestamp) ==
    [id |-> id,
     transaction_id |-> transaction_id,
     user_id |-> user_id,
     risk_score |-> risk_score,
     decision |-> decision,
     risk_components |-> ComponentsJson(risk_components),
     explanation |-> explanation,
     timestamp |-> timestamp]

\* the table after log_decision commits
log_decision(rows, clock, transaction_id, user_id, risk_score, decision, risk_components, explanation) ==
    Append(rows, AuditLog(Len(rows) + 1, transaction_id, user_id, risk_score,
                          decision, risk_components, explanation, clock))

\* AuditLog.to_dict
to_dict(row) ==
    [id |-> row.id,
     transaction_id |-> row.transaction_id,
     user_id |-> row.user_id,
     risk_score |-> Round(row.risk_score, 1000),
     decision |-> row.decision,
     risk_components |->
         IF row.risk_components.is_null THEN EmptyDict
         ELSE JsonLoads(row.risk_components.text),
     explanation |-> row.explanation,
     timestamp |-> row.timestamp]

\* ORDER BY timestamp DESC over the rows at the indices in idx; rows of equal
\* timestamp come in rowid order
\* the ascending order, .desc() forgotten
RECURSIVE OrderByTimestampAsc(_, _)
OrderByTimestampAsc(rows, idx) ==
    IF idx = {} THEN <<>>
    ELSE LET first == CHOOSE i \in idx :
                 \A j \in idx :
                     \/ rows[i].timestamp < rows[j].timestamp
                     \/ (rows[i].timestamp = rows[j].timestamp /\ i <= j)
         IN  <<first>> \o OrderByTimestampAsc(rows, idx \ {first})

RECURSIVE OrderByTimestampDesc(_, _)
OrderByTimestampDesc(rows, idx) ==
    IF idx = {} THEN <<>>
    ELSE LET first == CHOOSE i \in idx :
                 \A j \in idx :
                     \/ rows[i].timestamp > rows[j].timestamp
                     \/ (rows[i].timestamp = rows[j].timestamp /\ i <= j)
         IN  <<first>> \o OrderByTimestampDesc(rows, idx \ {first})

\* LIMIT n of SQLite: a negative n is no limit
Limit(s, n) ==
    IF n < 0 \/ n >= Len(s) THEN s ELSE SubSeq(s, 1, n)

NoUser == "None"

\* get_audit_logs(limit, user_id)
get_audit_logs(rows, limit, user_id) ==
    LET idx == IF user_id # NoUser /\ user_id # ""
               THEN {i \in DOMAIN rows : rows[i].user_id = user_id}
               ELSE DOMAIN rows
        logs == Limit(OrderByTimestampDesc(rows, idx), limit)
    IN  [i \in DOMAIN logs |-> to_dict(rows[logs[i]])]

(***************************************************************************)
(* Explanation: risk_ml.py generate_explanation                            *)
(***************************************************************************)
\* risk_components.get(name, {}).get(field, default)
GetField(risk_components, name, field, default) ==
    IF name \in DOMAIN risk_components /\ field \in DOMAIN risk_components[name]
    THEN risk_components[name][field]
    ELSE default

\* a JSON value that is not a number, where a number is expected
NotANumber == <<0, 0>>

IsNumber(x) == x[2] # 0

\* the sentence of the fallback, and the sentence returned when the fallback
\* cannot be formatted
FallbackTemplate ==
    "Decision: {decision}. Primary risk factors: ML anomaly score ({model_score:.2f}) and amount ratio ({amount_ratio:.2f}x average)."

UltimateFallbackTemplate ==
    "Decision: {decision}. Unable to generate detailed explanation due to technical error."

\* the fallback with its two numbers exchanged
FallbackSwapped(decision, model_score, amount_ratio) ==
    [kind |-> "fallback",
     template |-> FallbackTemplate,
     decision |-> decision,
     model_score |-> Round(amount_ratio, 100),
     amount_ratio |-> Round(model_score, 100)]

\* the f-string of the fallback: a text is its template with the values
\* printed into it, the two numbers with two decimals
Fallback(decision, model_score, amount_ratio) ==
    [kind |-> "fallback",
     template |-> FallbackTemplate,
     decision |-> decision,
     model_score |-> Round(model_score, 100),
     amount_ratio |-> Round(amount_ratio, 100)]

\* generate_explanation(transaction, risk_components, decision).  llm is the
\* outcome of the external call: "ok" returns the text the service wrote for
\* the prompt (identified here by the values the prompt is built from); a
\* missing API key, an error of the service or its timeout raise inside the
\* try and return the fallback.  A value that is not a number raises when it
\* is printed, before the call, and again in the fallback.
generate_explanation(risk_components, decision, llm) ==
    LET model_anomaly == GetField(risk_components, "model_anomaly", "value", Zero)
        amount_ratio_raw == GetField(risk_components, "amount_ratio", "raw_ratio", One)
    IN  IF ~IsNumber(model_anomaly) \/ ~IsNumber(amount_ratio_raw)
        THEN [kind |-> "fallback",
              template |-> UltimateFallbackTemplate,
              decision |-> decision]
        ELSE IF llm = "ok"
        THEN [kind |-> "llm",
              decision |-> decision,
              model_anomaly |-> model_anomaly,
              amount_ratio_raw |-> amount_ratio_raw,
              user_trust |-> GetField(risk_components, "user_trust", "value", Zero),
              velocity |-> GetField(risk_components, "velocity", "value", Zero)]
        ELSE Fallback(decision, model_anomaly, amount_ratio_raw)

(***************************************************************************)
(* Requests                                                                *)
(***************************************************************************)
MaxAudit == 2

Alice ==
    [user_id |-> "alice", account_age_days |-> 730, avg_transaction |-> 150,
     trust_score |-> Rat(95, 100)]

Charlie ==
    [user_id |-> "charlie", account_age_days |-> 30, avg_transaction |-> 500,
     trust_score |-> Rat(40, 100)]

Users == {"alice", "charlie"}

\* the rows of the transactions table per user, as found in transactions.db
TxnTables ==
    {[u \in Users |-> IF u = "charlie" THEN 12 ELSE 0]}

\* a /calculate-risk body; missing names the keys the body lacks, with
\* "ml_score_type" for an ml_score that is present but is not a number
CalcRequest(transaction_id, user_profile, amount, ml_score, missing) ==
    [transaction_id |-> transaction_id,
     user_id |-> user_profile.user_id,
     amount |-> amount,
     user_profile |-> user_profile,
     ml_score |-> ml_score,
     missing |-> missing]

CalcRequests ==
    {CalcRequest(1, Alice, 450, Rat(9, 40), {}),
     CalcRequest(1, Alice, 100, Rat(39, 40), {}),
     CalcRequest(2, Charlie, 450, Rat(3, 2), {}),
     CalcRequest(1, Alice, 450, Rat(9, 40), {"ml_score"}),
     CalcRequest(1, Alice, 450, Rat(9, 40), {"amount"}),
     CalcRequest(1, Alice, 450, Rat(9, 40), {"trust_score"}),
     CalcRequest(1, Alice, 450, Rat(9, 40), {"ml_score_type"})}

NoRequest == [kind |-> "none"]

NoBody == [kind |-> "none"]

\* the answer of the last call: its status and body, with the request that
\* was made and the arguments the call handed to log_decision, if it did
Response(op, status, req, body, logged) ==
    [op |-> op, status |-> status, req |-> req, body |-> body, logged |-> logged]

(***************************************************************************)
(* Handlers: routes.py                                                     *)
(***************************************************************************)
\* POST /generate-transaction.  get_user_profile returns a dict, and
\* generate_transaction reads it by attribute (user_profile.avg_transaction,
\* user_profile.preferred_categories): for a known user the handler raises,
\* rolls back and answers 500, so it never adds a row.
create_transaction ==
    /\ \E user_id \in Users \cup {"", "mallory"} :
           resp' = Response("generate_transaction",
                            IF user_id = "" THEN 400
                            ELSE IF user_id \notin Users THEN 404
                            ELSE 500,
                            [user_id |-> user_id], NoBody, NoBody)
    /\ UNCHANGED <<audit, txns, now, fin>>

\* what the database does to the write of log_decision: db.commit() succeeds
\* and db.refresh() succeeds; db.commit() raises; db.commit() succeeds and
\* db.refresh() raises
DbOutcomes == {"ok", "commit_fails", "refresh_fails"}

\* the table log_decision leaves behind, with db.rollback() of its except
\* branch leaving a committed row where it is
log_decision_table(rows, row_added, db) ==
    IF db = "commit_fails" THEN rows ELSE row_added

\* POST /calculate-risk.  The answer carries, next to status and body, the
\* arguments handed to log_decision and whether log_decision raised.
calculate_risk ==
    /\ \E req \in CalcRequests :
        IF req.missing \cap {"transaction", "user_profile", "ml_score"} # {}
        THEN /\ resp' = Response("calculate_risk", 400, req,
                    [error |-> "Missing required fields: transaction, user_profile, or ml_score"],
                    NoBody)
             /\ UNCHANGED <<audit, now>>
        ELSE IF \/ req.missing \cap {"transaction_id", "user_id", "amount"} # {}
                \/ req.transaction_id = 0
                \/ req.user_id = ""
                \/ req.amount = 0
        THEN /\ resp' = Response("calculate_risk", 400, req,
                    [error |-> "Missing transaction_id, user_id, or amount"],
                    NoBody)
             /\ UNCHANGED <<audit, now>>
        ELSE IF "trust_score" \in req.missing
        THEN /\ resp' = Response("calculate_risk", 500, req,
                                 [error |-> "'trust_score'"], NoBody)
             /\ UNCHANGED <<audit, now>>
        ELSE IF "ml_score_type" \in req.missing
        THEN /\ resp' = Response("calculate_risk", 500, req,
                                 [error |-> "Unknown format code 'f' for object of type 'str'"],
                                 NoBody)
             /\ UNCHANGED <<audit, now>>
        ELSE LET f == RouteFusion(req.amount, req.user_profile, req.ml_score,
                                  IF req.user_id \in DOMAIN txns
                                  THEN txns[req.user_id] ELSE 0)
                 row_added == log_decision(audit, now, req.transaction_id,
                                           req.user_id, f.final_risk, f.decision,
                                           f.components, NoExplanation)
                 logged == [transaction_id |-> req.transaction_id,
                            user_id |-> req.user_id,
                            risk_score |-> f.final_risk,
                            decision |-> f.decision,
                            risk_components |-> f.components,
                            raised |-> FALSE]
             IN  /\ Len(audit) < MaxAudit
                 /\ \E db \in DbOutcomes :
                     /\ audit' = log_decision_table(audit, row_added, db)
                     /\ now' = IF db = "commit_fails" THEN now ELSE now + 1
                     /\ resp' = IF db = "ok"
                                THEN Response("calculate_risk", 200, req,
                                         [risk_score |-> Round(f.final_risk, 1000),
                                          decision |-> f.decision,
                                          components |-> f.components,
                                          audit_id |-> audit'[Len(audit')].id],
                                         [logged EXCEPT !.raised = FALSE])
                                ELSE Response("calculate_risk", 500, req,
                                         [error |-> "Failed to log decision", cause |-> db],
                                         [logged EXCEPT !.raised = TRUE])
    /\ UNCHANGED <<txns, fin>>

MaxLimit == 100

Limits == {-1, 0, 1, 101}

\* GET /audit-log?limit=&user_id=
get_audit_log ==
    /\ \E given \in Limits, user_id \in {NoUser, "alice", "charlie"} :
        LET limit == IF given < MaxLimit THEN given ELSE MaxLimit
            logs == get_audit_logs(audit, limit, user_id)
        IN  resp' = Response("audit_log", 200,
                             [limit |-> given, user_id |-> user_id],
                             [count |-> Len(logs), logs |-> logs], NoBody)
    /\ UNCHANGED <<audit, txns, now, fin>>

\* the row explain_decision patches: .filter(transaction_id == ...)
\* .order_by(timestamp.desc()).first(); 0 when there is none
MostRecent(rows, transaction_id) ==
    LET idx == {i \in DOMAIN rows : rows[i].transaction_id = transaction_id}
    IN  IF idx = {} THEN 0 ELSE OrderByTimestampDesc(rows, idx)[1]

\* a patch of every row of the transaction, the .first() forgotten
AttachToAll(rows, transaction_id, explanation) ==
    [i \in DOMAIN rows |->
        IF rows[i].transaction_id = transaction_id
        THEN [rows[i] EXCEPT !.explanation = explanation]
        ELSE rows[i]]

\* audit_entry.explanation = explanation; db.commit()
AttachExplanation(rows, transaction_id, explanation) ==
    LET i == MostRecent(rows, transaction_id)
    IN  IF i = 0 THEN rows
        ELSE [rows EXCEPT ![i].explanation = explanation]

ExplainTxnIds == {0, 1, 2}

\* the components and decision a client sends to /explain-decision for a
\* transaction: those of an answer /calculate-risk gave for that transaction
\* (any of them, when it was assessed more than once), and for a transaction
\* never assessed there those of a result of
\* RiskMLService.calculate_risk_score, as it is or with a text in place of the
\* model's value
ExplainPayloads(rows, transaction_id) ==
    LET idx == {i \in DOMAIN rows : rows[i].transaction_id = transaction_id}
        r == calculate_risk_score([amount |-> 400], Alice, Rat(127, 1000), 0)
    IN  IF idx # {}
        THEN {[risk_components |-> to_dict(rows[i]).risk_components,
               decision |-> rows[i].decision] : i \in idx}
        ELSE {[risk_components |-> r.components, decision |-> r.decision],
              [risk_components |->
                   [r.components EXCEPT !["model_anomaly"].value = NotANumber],
               decision |-> r.decision]}

\* POST /explain-decision.  A request lacking transaction, risk_components or
\* decision is answered 400.  Otherwise transaction_id 0 stands for a
\* transaction without an id, llm is the outcome of the external call, and the
\* commit of the patched row succeeds or raises; the answer carries both
\* outcomes next to status and body.
explain_decision ==
    /\ \/ /\ resp' = Response("explain_decision", 400, NoRequest,
                              [error |-> "Missing required fields"], NoBody)
          /\ UNCHANGED audit
       \/ \E transaction_id \in ExplainTxnIds, llm \in {"ok", "fail"} :
          \E payload \in ExplainPayloads(audit, transaction_id) :
          LET req == [transaction_id |-> transaction_id,
                      risk_components |-> payload.risk_components,
                      decision |-> payload.decision]
              explanation ==
                  generate_explanation(payload.risk_components, payload.decision, llm)
              found == transaction_id # 0 /\ MostRecent(audit, transaction_id) # 0
          IN  \/ /\ found
                 /\ resp' = Response("explain_decision", 500, req,
                                     [error |-> "commit failed"],
                                     [llm |-> llm, db |-> "commit_fails"])
                 /\ UNCHANGED audit
              \/ /\ audit' = IF transaction_id # 0
                             THEN AttachExplanation(audit, transaction_id, explanation)
                             ELSE audit
                 /\ resp' = Response("explain_decision", 200, req,
                                     [explanation |-> explanation],
                                     [llm |-> llm, db |-> "ok"])
    /\ UNCHANGED <<txns, now, fin>>

Init ==
    /\ audit = <<>>
    /\ txns \in TxnTables
    /\ now = 1
    /\ resp = Response("none", 0, NoRequest, NoBody, NoBody)
    /\ fin = NoRequest

Next ==
    \/ create_transaction
    \/ calculate_risk
    \/ get_audit_log
    \/ explain_decision

Spec == Init /\ [][Next]_vars

(***************************************************************************)
(* The two fusions applied to the same inputs                              *)
(***************************************************************************)
FusionInputs ==
    [amount : {-150, 100, 150, 450},
     user_profile : {Alice, Charlie},
     ml_score : {Rat(1, 10), Rat(9, 40), Rat(1, 4), Rat(39, 40), One, Rat(3, 2)},
     recent_count : {0, 1, 6, 12}]

InitFusion ==
    /\ audit = <<>>
    /\ txns \in {[u \in Users |-> 0]}
    /\ now = 1
    /\ resp = Response("none", 0, NoRequest, NoBody, NoBody)
    /\ fin \in FusionInputs

\* RiskMLService.calculate_risk_score on the inputs
ServiceFusionStep ==
    /\ resp.op = "none"
    /\ LET r == calculate_risk_score([amount |-> fin.amount], fin.user_profile,
                                     fin.ml_score, fin.recent_count)
       IN  resp' = Response("calculate_risk_score", 200, fin, r, NoBody)
    /\ UNCHANGED <<audit, txns, now, fin>>

\* the fusion of /calculate-risk on the inputs, and the risk_score, decision
\* and components of its answer
RouteFusionStep ==
    /\ resp.op = "none"
    /\ LET f == RouteFusion(fin.amount, fin.user_profile, fin.ml_score,
                            fin.recent_count)
       IN  resp' = Response("calculate_risk", 200, fin,
                            [risk_score |-> Round(f.final_risk, 1000),
                             decision |-> f.decision,
                             components |-> f.components],
                            [risk_score |-> f.final_risk,
                             decision |-> f.decision,
                             risk_components |-> f.components])
    /\ UNCHANGED <<audit, txns, now, fin>>

\* both fusions on the inputs, side by side
BothFusionsStep ==
    /\ resp.op = "none"
    /\ LET r == calculate_risk_score([amount |-> fin.amount], fin.user_profile,
                                     fin.ml_score, fin.recent_count)
           f == RouteFusion(fin.amount, fin.user_profile, fin.ml_score,
                            fin.recent_count)
       IN  resp' = Response("both_fusions", 200, fin,
                            [service |-> r, route |-> f], NoBody)
    /\ UNCHANGED <<audit, txns, now, fin>>

NextFusion ==
    \/ ServiceFusionStep
    \/ RouteFusionStep
    \/ BothFusionsStep

SpecFusion == InitFusion /\ [][NextFusion]_vars

(***************************************************************************)
(* RiskMLService.score_transaction on the outputs of the pickled model     *)
(***************************************************************************)
\* the columns of the feature vector, in the order of
\* np.array([[amount_ratio, hour, day, merchant_category_encoded,
\* account_age_days]])
features == <<"amount_ratio", "hour", "day", "merchant_category_encoded",
              "account_age_days">>

feature_names == <<"amount_ratio", "hour", "day", "merchant_category">>

ExpOrder == 4

\* np.exp, by its Taylor polynomial of order ExpOrder in Horner form:
\* 1 + x (1 + x/2 (1 + x/3 (...)))
RECURSIVE ExpFrom(_, _)
ExpFrom(x, k) ==
    IF k > ExpOrder THEN One
    ELSE RAdd(One, RMul(RDiv(x, FromInt(k)), ExpFrom(x, k + 1)))

exp(x) == ExpFrom(x, 1)

\* the normalisation with the reciprocal left out
anomaly_score_unreciprocated(anomaly_score_raw) ==
    RAdd(One, exp(anomaly_score_raw))

\* anomaly_score = 1 / (1 + np.exp(anomaly_score_raw))
anomaly_score(anomaly_score_raw) ==
    RDiv(One, RAdd(One, exp(anomaly_score_raw)))

\* zip(feature_names, shap_values[0]): pairs up to the shorter of the two
zip(names, values) ==
    [i \in 1..(IF Len(names) < Len(values) THEN Len(names) ELSE Len(values)) |->
        <<names[i], values[i]>>]

\* sorted(items, key=lambda x: abs(x[1]), reverse=True): stable, so items of
\* equal key keep their order
sorted_by_abs_desc(items) ==
    LET before(j, i) == \/ Abs(items[j][2]) > Abs(items[i][2])
                        \/ Abs(items[j][2]) = Abs(items[i][2]) /\ j < i
        rank(i) == 1 + Cardinality({j \in DOMAIN items : before(j, i)})
    IN  [r \in DOMAIN items |-> items[CHOOSE i \in DOMAIN items : rank(i) = r]]

\* shap_dict, sorted_shap and dict(sorted_shap): the entries in order
shap_features(shap_values) ==
    LET sorted_shap == sorted_by_abs_desc(zip(feature_names, shap_values))
    IN  SubSeq(sorted_shap, 1, IF Len(sorted_shap) < 3 THEN Len(sorted_shap) ELSE 3)

\* what the model and the explainer return for a feature vector: the raw
\* decision value, and one attribution per column, in tenths
RawScores == {Rat(-1, 1), Rat(-1, 2), Rat(-1, 4), Zero, Rat(1, 4), Rat(1, 2), One}

Attributions == {-2, -1, 1, 2}

ScoreInputs ==
    [anomaly_score_raw : RawScores,
     shap_values : [DOMAIN features -> Attributions]]

InitScore ==
    /\ audit = <<>>
    /\ txns \in {[u \in Users |-> 0]}
    /\ now = 1
    /\ resp = Response("none", 0, NoRequest, NoBody, NoBody)
    /\ fin \in ScoreInputs

score_transaction ==
    /\ resp.op = "none"
    /\ resp' = Response("score_transaction", 200, fin,
                        [anomaly_score |-> anomaly_score(fin.anomaly_score_raw),
                         shap_features |-> shap_features(fin.shap_values)],
                        NoBody)
    /\ UNCHANGED <<audit, txns, now, fin>>

NextScore == score_transaction

SpecScore == InitScore /\ [][NextScore]_vars

(***************************************************************************)
(* Properties                                                              *)
(***************************************************************************)
\* the decision the thresholds give: above 0.7, from 0.4 to 0.7, below 0.4
ThresholdDecision(score) ==
    IF RLt(DeclineAbove, score) THEN "DECLINE"
    ELSE IF RLe(ReviewFrom, score) THEN "MANUAL REVIEW"
    ELSE "APPROVE"

RECURSIVE SumOver(_, _)
SumOver(comps, names) ==
    IF names = {} THEN Zero
    ELSE LET n == CHOOSE x \in names : TRUE
         IN  RAdd(comps[n].contribution, SumOver(comps, names \ {n}))

ContributionSum(comps) == SumOver(comps, DOMAIN comps)

ByService == resp.op = "calculate_risk_score" /\ resp.body.status = "ok"

ByRoute == resp.op = "calculate_risk" /\ resp.status = 200

Fused == ByService \/ ByRoute

\* the score the fusion computed and decided on
FusedScore == IF ByService THEN resp.body.risk_score ELSE resp.logged.risk_score

ValuesInUnit(comps) == \A c \in DOMAIN comps : InUnit(comps[c].value)

\* C1: both fusions decide DECLINE above 0.7, MANUAL REVIEW from 0.4 to 0.7
\* (both ends included) and APPROVE below 0.4.
C1_DecisionByThresholds ==
    Fused => resp.body.decision = ThresholdDecision(FusedScore)

\* C2: for every input the fusions accept, each of the four component values
\* and the risk score lie in [0, 1].
C2_ValuesAndScoreInUnit ==
    Fused => ValuesInUnit(resp.body.components) /\ InUnit(FusedScore)

\* C3: in the result of every fusion each component's contribution is its
\* value times its weight, the weights are 0.4 (model anomaly), 0.3 (amount
\* ratio), 0.2 (user trust) and 0.1 (velocity), and they sum to 1.
C3_ContributionIsValueTimesWeight ==
    Fused =>
        LET comps == resp.body.components
            model == IF ByService THEN "model_anomaly" ELSE "ml_anomaly"
        IN  /\ DOMAIN comps = {model, "amount_ratio", "user_trust", "velocity"}
            /\ \A c \in DOMAIN comps :
                   comps[c].contribution = RMul(comps[c].value, comps[c].weight)
            /\ comps[model].weight = Rat(4, 10)
            /\ comps["amount_ratio"].weight = Rat(3, 10)
            /\ comps["user_trust"].weight = Rat(2, 10)
            /\ comps["velocity"].weight = Rat(1, 10)
            /\ RAdd(RAdd(comps[model].weight, comps["amount_ratio"].weight),
                    RAdd(comps["user_trust"].weight, comps["velocity"].weight)) = One

\* a fusion of the handler in which all four components contribute
C3_Witness ==
    /\ ByRoute
    /\ \A c \in DOMAIN resp.body.components :
           RLt(Zero, resp.body.components[c].contribution)

\* C4 as stated: the risk_score of every fusion result is the sum of the four
\* contributions, and lies in [0, 1] whenever every value does.
C4_ResultScoreIsSum ==
    Fused =>
        /\ resp.body.risk_score = ContributionSum(resp.body.components)
        /\ (ValuesInUnit(resp.body.components) => InUnit(resp.body.risk_score))

\* C4 amended: the score a fusion computes (the one calculate_risk_score
\* returns, and the one the handler decides on and records) is the sum of the
\* four contributions; the risk_score in the handler's answer is that sum
\* rounded to three decimals; each lies in [0, 1] whenever every value does.
C4_ScoreIsSumAnswerRounded ==
    Fused =>
        /\ FusedScore = ContributionSum(resp.body.components)
        /\ resp.body.risk_score =
               IF ByService THEN FusedScore ELSE Round(FusedScore, 1000)
        /\ (ValuesInUnit(resp.body.components) =>
               InUnit(FusedScore) /\ InUnit(resp.body.risk_score))

\* an answer of the handler whose risk_score differs from the sum it rounds,
\* every value being in [0, 1]
C4_Witness ==
    /\ ByRoute
    /\ ValuesInUnit(resp.body.components)
    /\ resp.body.risk_score # FusedScore
    /\ RLt(Zero, resp.body.components["velocity"].contribution)

\* what a reader re-derives from a stored row: its component breakdown
StoredComponents(row) ==
    IF row.risk_components.is_null THEN EmptyDict
    ELSE JsonLoads(row.risk_components.text)

\* C5: every audit row is re-derivable from what it stores: its risk_score is
\* the sum of its stored contributions, each stored contribution is the
\* stored value times the stored weight, and its decision is the threshold
\* decision for its stored risk_score.
C5_AuditRederivable ==
    \A i \in DOMAIN audit :
        LET comps == StoredComponents(audit[i])
        IN  /\ audit[i].risk_score = ContributionSum(comps)
            /\ \A c \in DOMAIN comps :
                   comps[c].contribution = RMul(comps[c].value, comps[c].weight)
            /\ audit[i].decision = ThresholdDecision(audit[i].risk_score)

\* every field of a row but its explanation
Fixed(row) == [row EXCEPT !.explanation = NoExplanation]

\* C6: no audit row is ever deleted, no field of a row other than explanation
\* ever changes, and an explanation once set is never overwritten.
C6_AuditImmutable ==
    [][/\ Len(audit') >= Len(audit)
       /\ \A i \in DOMAIN audit :
              /\ Fixed(audit'[i]) = Fixed(audit[i])
              /\ (audit[i].explanation # NoExplanation =>
                     audit'[i].explanation = audit[i].explanation)]_vars

\* a step of /explain-decision that reaches the audit update
ExplainStep ==
    /\ resp'.op = "explain_decision"
    /\ resp'.status = 200
    /\ resp'.req.transaction_id # 0

RowsOf(rows, transaction_id) ==
    {i \in DOMAIN rows : rows[i].transaction_id = transaction_id}

\* the row of the transaction recorded last
Latest(rows, transaction_id) ==
    CHOOSE i \in RowsOf(rows, transaction_id) :
        \A j \in RowsOf(rows, transaction_id) :
            rows[j].timestamp <= rows[i].timestamp

\* C7: attaching an explanation for a transaction that has audit rows sets
\* the explanation of the most recent of them and changes nothing else in the
\* store: no other field, no other row, no new row.
C7_AttachPatchesLatestOnly ==
    [][(ExplainStep /\ RowsOf(audit, resp'.req.transaction_id) # {}) =>
          audit' = [audit EXCEPT
                       ![Latest(audit, resp'.req.transaction_id)].explanation =
                           resp'.body.explanation]]_vars

\* after an attach: the transaction has an older row without explanation and
\* its latest row carries the explanation just returned
C7_Witness ==
    /\ resp.op = "explain_decision"
    /\ resp.status = 200
    /\ resp.req.transaction_id # 0
    /\ Cardinality(RowsOf(audit, resp.req.transaction_id)) >= 2
    /\ \A i \in RowsOf(audit, resp.req.transaction_id) :
           audit[i].explanation =
               IF i = Latest(audit, resp.req.transaction_id)
               THEN resp.body.explanation
               ELSE NoExplanation

\* C8: attaching an explanation for a transaction that has no audit row
\* answers not-found and leaves the store unchanged.
C8_AttachUnknownIsNotFound ==
    [][(ExplainStep /\ RowsOf(audit, resp'.req.transaction_id) = {}) =>
          (resp'.status = 404 /\ audit' = audit)]_vars

\* a listing with limit 1 and the user of the decision recorded just before
ListAfterRecord ==
    /\ resp.op = "calculate_risk"
    /\ resp.status = 200
    /\ resp'.op = "audit_log"
    /\ resp'.req.limit = 1
    /\ resp'.req.user_id = resp.logged.user_id

\* C9 as stated: a record followed by list(limit=1, user_id=U) returns one
\* entry whose transaction_id, user_id, risk_score, decision and component
\* breakdown are exactly those recorded.
C9_RoundTripExact ==
    [][ListAfterRecord =>
          /\ resp'.body.count = 1
          /\ resp'.body.logs[1].transaction_id = resp.logged.transaction_id
          /\ resp'.body.logs[1].user_id = resp.logged.user_id
          /\ resp'.body.logs[1].risk_score = resp.logged.risk_score
          /\ resp'.body.logs[1].decision = resp.logged.decision
          /\ resp'.body.logs[1].risk_components = resp.logged.risk_components]_vars

\* C9 amended: the entry's transaction_id, user_id, decision and component
\* breakdown are exactly those recorded, and its risk_score is the recorded
\* one rounded to three decimals.
C9_RoundTripRounded ==
    [][ListAfterRecord =>
          /\ resp'.body.count = 1
          /\ resp'.body.logs[1].transaction_id = resp.logged.transaction_id
          /\ resp'.body.logs[1].user_id = resp.logged.user_id
          /\ resp'.body.logs[1].risk_score = Round(resp.logged.risk_score, 1000)
          /\ resp'.body.logs[1].decision = resp.logged.decision
          /\ resp'.body.logs[1].risk_components = resp.logged.risk_components]_vars

\* a listing with limit 1 for a user with two rows that returns the newest
\* row of the store, its risk_score differing from the stored one
C9_Witness ==
    /\ resp.op = "audit_log"
    /\ resp.req.limit = 1
    /\ resp.body.count = 1
    /\ Cardinality({i \in DOMAIN audit : audit[i].user_id = resp.req.user_id}) >= 2
    /\ resp.body.logs[1].id = Len(audit)
    /\ resp.body.logs[1].risk_score # audit[Len(audit)].risk_score

\* C10: for every limit and optional user filter the listing returns at most
\* min(limit, 100) entries (none for a limit below zero), all of the
\* requested user when one is given, most recent first.
C10_ListingBounded ==
    resp.op = "audit_log" =>
        LET logs == resp.body.logs
            most == IF resp.req.limit < MaxLimit THEN resp.req.limit ELSE MaxLimit
        IN  /\ Len(logs) <= (IF most < 0 THEN 0 ELSE most)
            /\ (resp.req.user_id # NoUser =>
                   \A i \in DOMAIN logs : logs[i].user_id = resp.req.user_id)
            /\ \A i, j \in DOMAIN logs :
                   i < j => logs[i].timestamp >= logs[j].timestamp

\* a /calculate-risk answer whose call of log_decision raised
AuditWriteFailed ==
    /\ resp.op = "calculate_risk"
    /\ resp.logged # NoBody
    /\ resp.logged.raised

\* C11: when the audit write fails during a calculate-risk request, the answer
\* still carries the computed risk_score and decision, next to an indication
\* that the audit trail is degraded; it is not a plain error.
C11_AuditFailureStillAnswersRisk ==
    AuditWriteFailed =>
        /\ resp.status # 500
        /\ {"risk_score", "decision"} \subseteq DOMAIN resp.body
        /\ resp.body.risk_score = Round(resp.logged.risk_score, 1000)
        /\ resp.body.decision = resp.logged.decision
        /\ DOMAIN resp.body \ {"risk_score", "decision", "components", "audit_id"} # {}

\* a /calculate-risk step whose call of log_decision raises
RecordRaises ==
    /\ resp'.op = "calculate_risk"
    /\ resp'.logged # NoBody
    /\ resp'.logged.raised

\* C12: whenever log_decision raises, the audit store holds no entry from that
\* call, and every stored entry has a risk_score and a decision.
C12_RecordAllOrNothing ==
    [][/\ RecordRaises => audit' = audit
       /\ \A i \in DOMAIN audit' :
              IsNumber(audit'[i].risk_score) /\ audit'[i].decision \in Decisions]_vars

\* a /calculate-risk body that lacks a required key or carries a value of the
\* wrong type
Malformed(req) ==
    \/ req.missing # {}
    \/ req.transaction_id = 0
    \/ req.user_id = ""
    \/ req.amount = 0

\* C13: a calculate-risk request whose required input is missing or malformed
\* is answered with a 4xx status, and no audit write is attempted.
C13_MalformedIsClientError ==
    (resp.op = "calculate_risk" /\ Malformed(resp.req)) =>
        /\ resp.status \in 400..499
        /\ resp.logged = NoBody

\* an /explain-decision answer whose external call failed or timed out
ExternalFailed ==
    /\ resp.op = "explain_decision"
    /\ resp.logged # NoBody
    /\ resp.logged.llm = "fail"

\* C14 as stated: whenever the external call fails, generate_explanation
\* returns exactly "Decision: {decision}. Primary risk factors: model anomaly
\* score ({value}) and amount ratio ({raw_ratio}x average)." filled from the
\* given decision and components, and the request returns success.
C14_FallbackAsWorded ==
    ExternalFailed =>
        /\ resp.status = 200
        /\ resp.body.explanation =
               [kind |-> "fallback",
                template |->
                    "Decision: {decision}. Primary risk factors: model anomaly score ({value}) and amount ratio ({raw_ratio}x average).",
                decision |-> resp.req.decision,
                model_score |->
                    GetField(resp.req.risk_components, "model_anomaly", "value", Zero),
                amount_ratio |->
                    GetField(resp.req.risk_components, "amount_ratio", "raw_ratio", One)]

\* C14 amended: whenever the external call fails, the request returns success
\* unless the commit of the patched row fails, and the explanation is
\* "Decision: {decision}. Primary risk factors: ML anomaly score (v) and
\* amount ratio (r x average)." with v the value of model_anomaly (0 when
\* absent) and r the raw_ratio of amount_ratio (1 when absent), both printed
\* with two decimals, or, when one of them is not a number, "Decision:
\* {decision}. Unable to generate detailed explanation due to technical
\* error.".
C14_FallbackAsCoded ==
    ExternalFailed =>
        LET value == GetField(resp.req.risk_components, "model_anomaly", "value", Zero)
            raw_ratio == GetField(resp.req.risk_components, "amount_ratio", "raw_ratio", One)
        IN  /\ resp.status = 200 \/ (resp.status = 500 /\ resp.logged.db = "commit_fails")
            /\ resp.status = 200 =>
                   resp.body.explanation =
                       IF IsNumber(value) /\ IsNumber(raw_ratio)
                       THEN [kind |-> "fallback",
                             template |->
                                 "Decision: {decision}. Primary risk factors: ML anomaly score ({model_score:.2f}) and amount ratio ({amount_ratio:.2f}x average).",
                             decision |-> resp.req.decision,
                             model_score |-> Round(value, 100),
                             amount_ratio |-> Round(raw_ratio, 100)]
                       ELSE [kind |-> "fallback",
                             template |->
                                 "Decision: {decision}. Unable to generate detailed explanation due to technical error.",
                             decision |-> resp.req.decision]

\* a fallback whose two numbers differ from each other and from the values
\* they print
C14_Witness ==
    /\ ExternalFailed
    /\ resp.status = 200
    /\ resp.body.explanation.template = FallbackTemplate
    /\ resp.body.explanation.model_score # resp.body.explanation.amount_ratio
    /\ resp.body.explanation.model_score #
           GetField(resp.req.risk_components, "model_anomaly", "value", Zero)
    /\ resp.body.explanation.amount_ratio #
           GetField(resp.req.risk_components, "amount_ratio", "raw_ratio", One)

Scored == resp.op = "score_transaction"

\* the column an attribution entry names
FeatureIndex(name) ==
    CHOOSE i \in DOMAIN feature_names : feature_names[i] = name

\* C15: score_transaction returns exactly min(3, n) attribution entries, n the
\* number of features of the feature vector: the features of largest absolute
\* attribution among all n, in descending order of absolute attribution, ties
\* in declaration order.
C15_TopThreeOfAllFeatures ==
    Scored =>
        LET out == resp.body.shap_features
            n == Len(features)
            shap == resp.req.shap_values
            listed == {FeatureIndex(out[i][1]) : i \in DOMAIN out}
            first(i, j) == \/ Abs(shap[i]) > Abs(shap[j])
                           \/ Abs(shap[i]) = Abs(shap[j]) /\ i < j
        IN  /\ Len(out) = (IF n < 3 THEN n ELSE 3)
            /\ Cardinality(listed) = Len(out)
            /\ \A i \in DOMAIN out : out[i][2] = shap[FeatureIndex(out[i][1])]
            /\ \A i \in listed : \A k \in (1..n) \ listed : first(i, k)
            /\ \A i, j \in DOMAIN out :
                   i < j => first(FeatureIndex(out[i][1]), FeatureIndex(out[j][1]))

\* two successful /calculate-risk answers in a row to the same request, a
\* row having been added to the store in between
SameRequestAgain ==
    /\ resp.op = "calculate_risk"
    /\ resp.status = 200
    /\ resp'.op = "calculate_risk"
    /\ resp'.status = 200
    /\ resp'.req = resp.req

ScenarioA ==
    /\ ByService
    /\ resp.req = [amount |-> 150, user_profile |-> Alice,
                   ml_score |-> Rat(1, 10), recent_count |-> 0]

\* C17 as stated: Scenario A yields amount_ratio.value = 0.033, a user_trust
\* value near 0, velocity.value = 0, a risk_score of about 0.05 and APPROVE.
C17_ScenarioAAsStated ==
    ScenarioA =>
        /\ Round(resp.body.components["amount_ratio"].value, 1000) = Rat(33, 1000)
        /\ RLe(resp.body.components["user_trust"].value, Rat(1, 100))
        /\ resp.body.components["velocity"].value = Zero
        /\ Round(resp.body.risk_score, 100) = Rat(5, 100)
        /\ resp.body.decision = "APPROVE"

\* C17 amended: Scenario A yields amount_ratio.value = 1/3 (0.333), user_trust
\* value 0, velocity.value = 0, risk_score 0.1*0.4 + (1/3)*0.3 = 0.14 and
\* APPROVE.
C17_ScenarioA ==
    ScenarioA =>
        /\ resp.body.components["amount_ratio"].value = Rat(1, 3)
        /\ Round(resp.body.components["amount_ratio"].value, 1000) = Rat(333, 1000)
        /\ resp.body.components["user_trust"].value = Zero
        /\ resp.body.components["velocity"].value = Zero
        /\ resp.body.risk_score = Rat(14, 100)
        /\ resp.body.decision = "APPROVE"

\* Scenario A fused: the amount equals the average
C17_Witness ==
    /\ ScenarioA
    /\ resp.body.components["amount_ratio"].raw_ratio = One
    /\ resp.body.components["model_anomaly"].contribution = Rat(4, 100)

\* C18: for every raw decision value of the model the anomaly score
\* 1/(1+exp(raw)) returned by score_transaction lies in [0, 1].
C18_AnomalyScoreInUnit ==
    Scored => InUnit(resp.body.anomaly_score)

\* a score above one half, from a negative raw value
C18_Witness ==
    /\ Scored
    /\ RLt(resp.req.anomaly_score_raw, Zero)
    /\ RLt(Rat(1, 2), resp.body.anomaly_score)
    /\ RLt(resp.body.anomaly_score, One)

\* C19: on every input the two fusions compute the same four component
\* values under the same component names, the same risk_score and the same
\* decision.
C19_FusionsAgree ==
    resp.op = "both_fusions" =>
        LET service == resp.body.service
            route == resp.body.route
        IN  /\ DOMAIN service.components = DOMAIN route.components
            /\ \A c \in DOMAIN service.components \cap DOMAIN route.components :
                   service.components[c].value = route.components[c].value
            /\ service.risk_score = route.final_risk
            /\ service.decision = route.decision

\* a /calculate-risk step
CalculateStep == resp'.op = "calculate_risk"

\* C20: every /calculate-risk request that returns success appends exactly one
\* audit entry, whose id is the returned audit_id and whose transaction_id,
\* user_id, decision and component breakdown are those of the request and its
\* answer, with no explanation; every one that returns an error leaves the
\* store without an entry from it.
C20_SuccessAppendsOneErrorNone ==
    [][CalculateStep =>
          IF resp'.status = 200
          THEN /\ Len(audit') = Len(audit) + 1
               /\ SubSeq(audit', 1, Len(audit)) = audit
               /\ LET entry == audit'[Len(audit')]
                  IN  /\ entry.id = resp'.body.audit_id
                      /\ entry.transaction_id = resp'.req.transaction_id
                      /\ entry.user_id = resp'.req.user_id
                      /\ entry.decision = resp'.body.decision
                      /\ StoredComponents(entry) = resp'.body.components
                      /\ entry.explanation = NoExplanation
          ELSE audit' = audit]_vars

\* the valid /calculate-risk requests for a transaction whose answer carries
\* the given component breakdown
RequestsFusedTo(transaction_id, components) ==
    {req \in CalcRequests :
        /\ req.missing = {}
        /\ req.transaction_id = transaction_id
        /\ RouteFusion(req.amount, req.user_profile, req.ml_score,
                       txns[req.user_id]).components = components}

\* an /explain-decision answer with the fallback sentence, asked with a
\* component breakdown the /calculate-risk handler produced
FallbackFromHandlerComponents ==
    /\ ExternalFailed
    /\ resp.status = 200
    /\ "ml_anomaly" \in DOMAIN resp.req.risk_components
    /\ RequestsFusedTo(resp.req.transaction_id, resp.req.risk_components) # {}

\* C21: when the fallback explanation is built from the component breakdown
\* the /calculate-risk handler produced, the model anomaly value it reports
\* is the ml_score used in that fusion and the amount ratio it reports is the
\* raw amount/average ratio of that transaction (each as printed, with two
\* decimals).
C21_FallbackReportsFusionInputs ==
    FallbackFromHandlerComponents =>
        \A req \in RequestsFusedTo(resp.req.transaction_id, resp.req.risk_components) :
            /\ resp.body.explanation.model_score = Round(req.ml_score, 100)
            /\ resp.body.explanation.amount_ratio =
                   Round(RDiv(FromInt(req.amount),
                              FromInt(req.user_profile.avg_transaction)), 100)

\* C22: after any interleaving of calculate-risk and explain-decision
\* requests, every audit entry with an explanation holds one that was
\* generated from that entry's own decision and component breakdown.
C22_ExplanationOfOwnEntry ==
    \A i \in DOMAIN audit :
        audit[i].explanation # NoExplanation =>
            \E llm \in {"ok", "fail"} :
                audit[i].explanation =
                    generate_explanation(StoredComponents(audit[i]),
                                         audit[i].decision, llm)

====
